---- MODULE Spec2Model ----
(***************************************************************************)
(* SirHiss trading platform: the position book, the strategy manager's     *)
(* signal fusion and the trading engine's start/stop/cycle state machine.  *)
(*                                                                         *)
(* Two engine classes share most of their code:                            *)
(*   TradingEngine          (services/trading_engine.py)                   *)
(*   EnhancedTradingEngine  (services/enhanced_trading_engine.py)          *)
(* The variable `engine` says which class the modelled instance is.        *)
(*                                                                         *)
(* Numbers.  Python floats are modelled by exact rationals [n, d].         *)
(* Quantities are counted in lots of 1/LotsPerUnit of a unit, so that a    *)
(* quantity below the epsilon 0.0001 is representable; prices are integers *)
(* in an arbitrary currency unit, 0 standing for both 0.0 and None (the    *)
(* code reads every order price as `order.price or 0`).                    *)
(***************************************************************************)
EXTENDS Integers, Sequences, FiniteSets, TLC

VARIABLES
    engine,          \* "TradingEngine" | "EnhancedTradingEngine"
    positions,       \* self.positions: position key -> TradingPosition
    fills,           \* number of fills applied so far (bounded)
    lastFill,        \* history: the last call of _update_position_from_order
    basis,           \* history: per key, same-direction fills since last flat
    signals,         \* the list handed to get_combined_signal
    combined_signal, \* what get_combined_signal returned
    is_running,      \* self.is_running
    bot_status,      \* self.bot.status
    state_status,    \* self.bot_state.status (EnhancedTradingEngine)
    pending_orders,  \* self.pending_orders, in insertion order
    placed,          \* number of orders handed to exchange.place_order
    loops,           \* start_trading tasks inside `while self.is_running`
    monitors,        \* start_monitoring tasks: created, and collecting
    collecting,      \* data_collector.is_running
    subscribers,     \* times _process_market_data was subscribed
    cache,           \* market_data_cache: symbol -> ticker price
    cyc,             \* position of the running trading cycle, if any
    submitted,       \* history: orders submitted by the cycle in progress
    stopped_with,    \* history: the run of stop_trading since the last start
    last_call,       \* history: the start call on a running engine, or the
                     \* stop call on a stopped one, that made this state
    configuration,   \* the bot's row and its AlgorithmConfig rows
    exchange,        \* self.exchange: the class of the exchange object
    algorithm_instances,  \* self.algorithm_instances, in loading order
    engines,         \* the manager: is the bot in self.engines, and what
                     \* start_bot returned
    instance,        \* the strategy object, or strategy manager, studied on
                     \* its own
    returned         \* history: the last call on it, with what it returned

bookVars == <<engine, positions, fills, lastFill, basis>>

signalVars == <<signals, combined_signal>>

orderVars == <<pending_orders, placed>>

taskVars == <<loops, monitors, collecting, subscribers>>

statusVars == <<is_running, bot_status, state_status, stopped_with>>

cycleVars == <<cache, cyc, submitted>>

engineVars == <<orderVars, taskVars, statusVars, cycleVars, last_call>>

configVars == <<configuration, exchange, algorithm_instances, engines>>

strategyVars == <<instance, returned>>

vars == <<bookVars, signalVars, engineVars, configVars, strategyVars>>

----------------------------------------------------------------------------
(* Bounds *)

MaxQty == 4          \* order quantities are 1..MaxQty lots
MaxPrice == 2        \* prices are 0..MaxPrice
MaxFills == 2        \* fills applied in one behaviour of the position book
MaxSignals == 3      \* length of a list of signals
MaxOrders == 2       \* orders submitted in one behaviour of the engine
MaxStarts == 2       \* successful starts in one behaviour of the engine
MaxStrategies == 2   \* strategies registered in one strategy manager
MaxClock == 4        \* readings of time.time() are 0..MaxClock clock steps
MaxInterval == 2     \* dca_interval (seconds) or interval_hours is 0..MaxInterval
MaxLevels == 2       \* grid_levels is 0..MaxLevels

(* Program constants *)

EpsilonDen == 10000  \* the epsilon 0.0001 is 1/EpsilonDen

LotsPerUnit == 2 * EpsilonDen   \* one lot is half an epsilon

Symbols == {"AAPL", "MSFT"}

\* the symbol of the position book and of the signals studied on their own
BookSymbols == {"AAPL"}

Engines == {"TradingEngine", "EnhancedTradingEngine"}

Quantities == 1..MaxQty

Prices == 0..MaxPrice

----------------------------------------------------------------------------
(* Exact rational arithmetic standing for float arithmetic *)

Abs(x) == IF x < 0 THEN -x ELSE x

Sign(x) == IF x > 0 THEN 1 ELSE IF x < 0 THEN -1 ELSE 0

Min(a, b) == IF a < b THEN a ELSE b

RECURSIVE Gcd(_, _)
Gcd(a, b) == IF b = 0 THEN a ELSE Gcd(b, a % b)

\* the rational n/d in lowest terms with a positive denominator (d # 0)
Rat(n, d) ==
    LET g == Gcd(Abs(n), Abs(d))
        s == IF d < 0 THEN -1 ELSE 1
    IN  [n |-> s * (n \div g), d |-> s * (d \div g)]

RInt(i) == [n |-> i, d |-> 1]

RZero == RInt(0)

RAdd(a, b) == Rat(a.n * b.d + b.n * a.d, a.d * b.d)

RSub(a, b) == Rat(a.n * b.d - b.n * a.d, a.d * b.d)

RMul(a, b) == Rat(a.n * b.n, a.d * b.d)

\* a / i for an integer i # 0
RDivInt(a, i) == Rat(a.n, a.d * i)

RLess(a, b) == a.n * b.d < b.n * a.d

RMin(a, b) == IF RLess(a, b) THEN a ELSE b

\* Python truthiness of a float
Truthy(a) == a.n # 0

----------------------------------------------------------------------------
(* PositionBook: TradingPosition and _update_position_from_order *)

Raise == 0 - 1       \* in place of a price: the exchange call raises

NoSide == "none"

Sides == {"buy", "sell"}

OrdersOn(symbols) ==
    [symbol : symbols, side : Sides, quantity : Quantities, price : Prices]

\* "SYM" in TradingEngine, "SYM_default" in EnhancedTradingEngine
PositionKey(eng, symbol) ==
    IF eng = "TradingEngine" THEN <<symbol>> ELSE <<symbol, "default">>

\* abs(position.quantity) < 0.0001, the quantity counted in lots
BelowEpsilon(q) == Abs(q) * EpsilonDen < LotsPerUnit

\* TradingPosition(symbol=symbol, quantity=0, entry_price=0,
\*                 current_price=order.price or 0 [, unrealized_pnl=0])
NewPosition(order) ==
    [symbol |-> order.symbol, quantity |-> 0, entry_price |-> RZero,
     current_price |-> order.price, unrealized_pnl |-> RZero,
     realized_pnl |-> RZero]

\* TradingEngine's TradingPosition(...) call omits the required dataclass
\* field unrealized_pnl: the constructor raises TypeError, which the handler's
\* except clause logs.  EnhancedTradingEngine passes unrealized_pnl=0.
NewPositionRaises(eng) == eng = "TradingEngine"

\* (mutation of Revalue: the price is stored, the P&L is not recomputed)
RevaluePriceOnly(position, price) ==
    [position EXCEPT !.current_price = price]

\* position.current_price = price
\* position.unrealized_pnl = (current_price - entry_price) * quantity
Revalue(position, price) ==
    [position EXCEPT
        !.current_price = price,
        !.unrealized_pnl =
            RMul(RSub(RInt(price), position.entry_price), RInt(position.quantity))]

\* the BUY branch
BuyUpdate(position, order) ==
    LET new_quantity == position.quantity + order.quantity
        total_cost == RAdd(RMul(RInt(position.quantity), position.entry_price),
                           RInt(order.quantity * order.price))
    IN  [position EXCEPT
            !.entry_price =
                IF position.quantity = 0 THEN RInt(order.price)
                ELSE IF new_quantity > 0 THEN RDivInt(total_cost, new_quantity)
                ELSE RZero,
            !.quantity = new_quantity]

\* the SELL branch
SellUpdate(position, order) ==
    LET quantity == position.quantity - order.quantity
        realized ==
            IF order.price # 0 /\ Truthy(position.entry_price)
            THEN RAdd(position.realized_pnl,
                      RMul(RSub(RInt(order.price), position.entry_price),
                           RInt(order.quantity)))
            ELSE position.realized_pnl
        closed == BelowEpsilon(quantity)
    IN  [position EXCEPT
            !.quantity = IF closed THEN 0 ELSE quantity,
            !.realized_pnl = realized,
            !.entry_price = IF closed THEN RZero ELSE position.entry_price]

\* the position a fill leaves, given the position it finds (or creates)
FilledPosition(position, order) ==
    Revalue(IF order.side = "buy" THEN BuyUpdate(position, order)
            ELSE SellUpdate(position, order),
            order.price)

\* _update_position_from_order(order): the positions afterwards
UpdatePositionFromOrder(eng, pos, order) ==
    LET key == PositionKey(eng, order.symbol)
    IN  IF key \in DOMAIN pos
        THEN [pos EXCEPT ![key] = FilledPosition(pos[key], order)]
        ELSE IF NewPositionRaises(eng) THEN pos
        ELSE (key :> FilledPosition(NewPosition(order), order)) @@ pos

\* _update_positions(): tick[symbol] is the ticker price or Raise
UpdatePositionsWith(pos, tick) ==
    [k \in DOMAIN pos |->
        IF tick[pos[k].symbol] = Raise THEN pos[k]
        ELSE Revalue(pos[k], tick[pos[k].symbol])]

\* _process_market_data(market_data)
ProcessMarketDataWith(eng, pos, symbol, price) ==
    IF eng = "TradingEngine"
    THEN IF <<symbol>> \in DOMAIN pos
         THEN [pos EXCEPT ![<<symbol>>] = Revalue(pos[<<symbol>>], price)]
         ELSE pos
    ELSE [k \in DOMAIN pos |->
            IF pos[k].symbol = symbol THEN Revalue(pos[k], price) ELSE pos[k]]

----------------------------------------------------------------------------
(* StrategyManager.get_combined_signal *)

\* signal strengths, in tenths (1.2 is there for the cap min(avg, 1.0))
StrengthTenths == {4, 5, 6, 8, 12}

Strength(t) == Rat(t, 10)

SignalTypes == {"buy", "sell"}

\* TradingSignal: symbol, strategy_name, signal, strength, price
TradingSignals ==
    [symbol : BookSymbols, strategy_name : {"strategy"}, signal : SignalTypes,
     strength : {Strength(t) : t \in StrengthTenths}, price : {1}]

NoSignal == [signal |-> "none"]      \* Python's None

NotCalled == [signal |-> "not called"]

RECURSIVE SelectSignals(_, _)
\* [s for s in signals if s.signal == type]
SelectSignals(sigs, type) ==
    IF sigs = <<>> THEN <<>>
    ELSE IF Head(sigs).signal = type
         THEN <<Head(sigs)>> \o SelectSignals(Tail(sigs), type)
         ELSE SelectSignals(Tail(sigs), type)

RECURSIVE SumStrength(_)
\* sum(s.strength for s in sigs)
SumStrength(sigs) ==
    IF sigs = <<>> THEN RZero
    ELSE RAdd(Head(sigs).strength, SumStrength(Tail(sigs)))

Half == Rat(1, 2)

ROne == RInt(1)

\* TradingSignal(symbol=signals[0].symbol, strategy_name="CombinedStrategy", ...)
CombinedSignal(sigs, type, weight, count, buy_weight, sell_weight, nbuy, nsell) ==
    [symbol |-> sigs[1].symbol, strategy_name |-> "CombinedStrategy",
     signal |-> type,
     strength |-> RMin(IF count > 0 THEN RDivInt(weight, count) ELSE RZero, ROne),
     price |-> sigs[1].price,
     metadata |-> [buy_signals |-> nbuy, sell_signals |-> nsell,
                   buy_weight |-> buy_weight, sell_weight |-> sell_weight]]

\* (mutation of GetCombinedSignal: >= in place of > between the weights)
GetCombinedSignalTieBuys(sigs) ==
    IF sigs = <<>> THEN NoSignal
    ELSE
    LET buy_signals == SelectSignals(sigs, "buy")
        sell_signals == SelectSignals(sigs, "sell")
        buy_weight == SumStrength(buy_signals)
        sell_weight == SumStrength(sell_signals)
    IN  IF ~RLess(buy_weight, sell_weight) /\ RLess(Half, buy_weight)
        THEN CombinedSignal(sigs, "buy", buy_weight, Len(buy_signals),
                            buy_weight, sell_weight,
                            Len(buy_signals), Len(sell_signals))
        ELSE IF RLess(buy_weight, sell_weight) /\ RLess(Half, sell_weight)
        THEN CombinedSignal(sigs, "sell", sell_weight, Len(sell_signals),
                            buy_weight, sell_weight,
                            Len(buy_signals), Len(sell_signals))
        ELSE NoSignal

\* get_combined_signal(signals)
GetCombinedSignal(sigs) ==
    IF sigs = <<>> THEN NoSignal
    ELSE
    LET buy_signals == SelectSignals(sigs, "buy")
        sell_signals == SelectSignals(sigs, "sell")
        buy_weight == SumStrength(buy_signals)
        sell_weight == SumStrength(sell_signals)
    IN  IF RLess(sell_weight, buy_weight) /\ RLess(Half, buy_weight)
        THEN CombinedSignal(sigs, "buy", buy_weight, Len(buy_signals),
                            buy_weight, sell_weight,
                            Len(buy_signals), Len(sell_signals))
        ELSE IF RLess(buy_weight, sell_weight) /\ RLess(Half, sell_weight)
        THEN CombinedSignal(sigs, "sell", sell_weight, Len(sell_signals),
                            buy_weight, sell_weight,
                            Len(buy_signals), Len(sell_signals))
        ELSE NoSignal

NoSignals == signals = <<>> /\ combined_signal = NotCalled

\* no strategy is studied on its own
NoStrategy == instance = <<>> /\ returned = <<>>

----------------------------------------------------------------------------
(* The engine: orders, stop_trading's cancellation loop, risk check *)

\* the strategy kinds create_advanced_strategy knows (two of the seven)
StrategyTypes == {"Scalping", "TrendFollowing"}

\* the exchange names ExchangeFactory.create_exchange knows
ExchangeNames == {"binance", "robinhood"}

AlgorithmConfig(name, type) == [algorithm_name |-> name, algorithm_type |-> type]

\* a bot watching one symbol with two enabled algorithms of known kinds
DefaultConfiguration ==
    [exchange |-> "binance",
     algorithms |-> <<AlgorithmConfig("algo1", "Scalping"),
                      AlgorithmConfig("algo2", "TrendFollowing")>>,
     symbols |-> <<"AAPL">>]

\* create_advanced_strategy raises ValueError for a kind it does not know
CreateAdvancedStrategyRaises(type) == type \notin StrategyTypes

\* _load_algorithms: an algorithm whose creation raises is logged and left
\* out, the others are loaded
RECURSIVE LoadAlgorithms(_)
LoadAlgorithms(algos) ==
    IF algos = <<>> THEN <<>>
    ELSE IF CreateAdvancedStrategyRaises(Head(algos).algorithm_type)
         THEN LoadAlgorithms(Tail(algos))
         ELSE <<Head(algos).algorithm_name>> \o LoadAlgorithms(Tail(algos))

\* _initialize_exchange: ExchangeFactory.create_exchange raises ValueError
\* for a name it does not know, and TypeError for "robinhood" (RobinhoodAPI
\* has no api_key parameter); either way the except clause returns a sandbox
\* RobinhoodAPI
InitializeExchange(name) ==
    IF name = "binance" THEN "BinanceAPI" ELSE "RobinhoodAPI"

NoManager == [registered |-> FALSE, returned |-> "none"]

\* an engine constructed from DefaultConfiguration, outside any manager
ConstructedEngine ==
    /\ configuration = DefaultConfiguration
    /\ exchange = InitializeExchange(configuration.exchange)
    /\ algorithm_instances = LoadAlgorithms(configuration.algorithms)
    /\ engines = NoManager

\* config.get('symbols', ...), in list order
SymbolList == configuration.symbols

\* the enabled algorithms of an EnhancedTradingEngine (algorithm_instances)
Algorithms == algorithm_instances

NoCycle == [phase |-> "idle", i |-> 0, j |-> 0, todo |-> <<>>, pv |-> 0]

NotStopped == [called |-> FALSE, pending |-> <<>>, attempted |-> <<>>,
                 completed |-> FALSE]

\* no such call has just returned
NoCall == [op |-> "none", before |-> <<>>]

\* the state __init__ leaves (bot.status defaults to "stopped")
InitEngineState ==
    /\ is_running = FALSE
    /\ bot_status = "stopped"
    /\ state_status = "stopped"
    /\ pending_orders = <<>>
    /\ placed = 0
    /\ loops = 0
    /\ monitors = [created |-> 0, looping |-> 0]
    /\ collecting = FALSE
    /\ subscribers = 0
    /\ cache = <<>>
    /\ cyc = NoCycle
    /\ submitted = <<>>
    /\ stopped_with = NotStopped
    /\ last_call = NoCall

RECURSIVE OrderIds(_)
OrderIds(orders) ==
    IF orders = <<>> THEN <<>>
    ELSE <<Head(orders).order_id>> \o OrderIds(Tail(orders))

RemoveAt(seq, i) == SubSeq(seq, 1, i - 1) \o SubSeq(seq, i + 1, Len(seq))

RemoveOrder(orders, id) ==
    SelectSeq(orders, LAMBDA o : o.order_id # id)

\* what exchange.cancel_order does for each pending order, in dict order:
\* "ok" (True), "false" (False) or "raise"
CancelOutcomes(orders) == [1..Len(orders) -> {"ok", "false", "raise"}]

\* `for order_id, order in self.pending_orders.items(): _cancel_order(order)`:
\* _cancel_order turns a raise into False, and on True deletes the order from
\* the dict being iterated, so that the iterator's next step raises
\* RuntimeError (dictionary changed size during iteration) out of the loop.
\* first: the first order whose cancellation succeeds (0: none).
CancelPendingOrders(orders, outcome) ==
    LET oks == {i \in 1..Len(orders) : outcome[i] = "ok"}
        first == IF oks = {} THEN 0
                 ELSE CHOOSE i \in oks : \A k \in oks : i <= k
    IN  [pending |-> IF first = 0 THEN orders ELSE RemoveAt(orders, first),
         attempted |-> IF first = 0 THEN OrderIds(orders)
                       ELSE SubSeq(OrderIds(orders), 1, first),
         completed |-> first = 0]

\* the body of stop_trading after `self.is_running = False`: the statuses it
\* leaves.  The outer except logs the RuntimeError and skips the status update.
StoppedBotStatus(run, status) == IF run.completed THEN "stopped" ELSE status

StoppedStateStatus(eng, run, status) ==
    IF eng = "TradingEngine" THEN status
    ELSE IF run.completed THEN "stopped" ELSE "stopping"

RECURSIVE SumExposure(_, _)
SumExposure(pos, keys) ==
    IF keys = {} THEN 0
    ELSE LET k == CHOOSE x \in keys : TRUE
         IN  Abs(pos[k].quantity * pos[k].current_price)
                + SumExposure(pos, keys \ {k})

\* sum(abs(pos.quantity * pos.current_price) for pos in positions.values())
TotalExposure(pos) == SumExposure(pos, DOMAIN pos)

RECURSIVE SumValue(_, _)
SumValue(pos, keys) ==
    IF keys = {} THEN 0
    ELSE LET k == CHOOSE x \in keys : TRUE
         IN  pos[k].current_price * pos[k].quantity + SumValue(pos, keys \ {k})

\* _calculate_portfolio_value: cash is the stable-currency balance, Raise when
\* get_balance raises (the except clause returns 0.0)
PortfolioValue(pos, cash) ==
    IF cash = Raise THEN 0 ELSE cash + SumValue(pos, DOMAIN pos)

\* RiskManager.check_risk_limits, max_portfolio_risk = 0.20 = 1/5
RiskRatioDen == 5

RiskLimitsOk(current_exposure, portfolio_value) ==
    IF portfolio_value > 0
    THEN current_exposure * RiskRatioDen <= portfolio_value
    ELSE TRUE

\* the key under which the risk check looks for an existing position
RiskPositionKey(eng, signal) ==
    IF eng = "TradingEngine" THEN <<signal.symbol>>
    ELSE <<signal.symbol, signal.strategy_name>>

MinStrength == Rat(6, 10)

\* BaseTradingStrategy.min_signal_interval, in seconds
MinSignalInterval == 60

\* config.max_position_size of an algorithm, in lots
MaxPositionSize == LotsPerUnit

\* time.time() when a signal is checked: seconds since 1970
CurrentTime == 1700000000

\* a strategy as BaseTradingStrategy.__init__ leaves it.  update_position,
\* the one method that assigns current_position and last_signal_time, is
\* called by no engine, so a strategy stays as constructed.
Strategy(name) ==
    [name |-> name, current_position |-> 0, last_signal_time |-> 0,
     min_signal_interval |-> MinSignalInterval,
     max_position_size |-> MaxPositionSize]

\* BaseTradingStrategy.should_trade
ShouldTrade(strategy, signal, now) ==
    /\ ~(now - strategy.last_signal_time < strategy.min_signal_interval)
    /\ ~(signal.signal = "buy"
          /\ strategy.current_position >= strategy.max_position_size)
    /\ ~(signal.signal = "sell"
          /\ strategy.current_position <= 0 - strategy.max_position_size)
    /\ ~RLess(signal.strength, MinStrength)

\* _check_risk_limits / _should_execute_algorithm_signal
CheckRiskLimits(eng, pos, signal, portfolio_value) ==
    LET key == RiskPositionKey(eng, signal)
    IN  /\ eng = "EnhancedTradingEngine" =>
              ShouldTrade(Strategy(signal.strategy_name), signal, CurrentTime)
        /\ RiskLimitsOk(TotalExposure(pos), portfolio_value)
        /\ key \in DOMAIN pos =>
              /\ ~(signal.signal = "buy" /\ pos[key].quantity > 0)
              /\ ~(signal.signal = "sell" /\ pos[key].quantity < 0)

\* calculate_position_size: positive only for a positive portfolio value; its
\* magnitude, a float function of strength, price and history, is an input
PositionSize(portfolio_value, size) == IF portfolio_value > 0 THEN size ELSE 0

\* (mutation of ExecutesPerAlgorithm: both engines execute every algorithm's
\* signal on its own)
ExecutesPerAlgorithmAlways(eng) == TRUE

\* TradingEngine executes the consensus of its strategies; the enhanced
\* engine executes the signal of each algorithm on its own
ExecutesPerAlgorithm(eng) == eng = "EnhancedTradingEngine"

----------------------------------------------------------------------------
(* History of the fills, kept for the statements about them *)

QuantityAt(pos, key) == IF key \in DOMAIN pos THEN pos[key].quantity ELSE 0

NoBasis == [qty |-> 0, cost |-> 0]

\* quantity and cost of the same-direction fills since the position was flat
BasisAfter(old, q0, order) ==
    LET s == IF order.side = "buy" THEN 1 ELSE -1
        add == [qty |-> order.quantity, cost |-> order.quantity * order.price]
        excess == order.quantity - Abs(q0)
    IN  IF q0 = 0 THEN add
        ELSE IF Sign(q0) = s
             THEN [qty |-> old.qty + add.qty, cost |-> old.cost + add.cost]
        ELSE IF excess < 0 THEN old
        ELSE IF excess = 0 THEN NoBasis
        ELSE [qty |-> excess, cost |-> excess * order.price]

NoFill ==
    [key |-> <<>>, side |-> NoSide, quantity |-> 0, price |-> 0,
     priced |-> TRUE,
     before |-> NewPosition([symbol |-> "", price |-> 0]),
     applied |-> FALSE,
     after |-> NewPosition([symbol |-> "", price |-> 0])]

\* priced: this fill and all fills before it carried a price
FillRecord(eng, pos, pos2, order, last) ==
    LET key == PositionKey(eng, order.symbol)
        before == IF key \in DOMAIN pos THEN pos[key] ELSE NewPosition(order)
    IN  [key |-> key, side |-> order.side, quantity |-> order.quantity,
         price |-> order.price, priced |-> last.priced /\ order.price > 0,
         before |-> before,
         applied |-> key \in DOMAIN pos2,
         after |-> IF key \in DOMAIN pos2 THEN pos2[key] ELSE before]

----------------------------------------------------------------------------
(* The position book of one symbol under arbitrary fills, refreshes and   *)
(* market data                                                            *)

InitPositions ==
    /\ engine \in Engines
    /\ positions = <<>>
    /\ fills = 0
    /\ lastFill = NoFill
    /\ basis = [k \in {} |-> NoBasis]

InitBook ==
    InitPositions /\ NoSignals /\ InitEngineState /\ ConstructedEngine
    /\ NoStrategy

\* a FILLED order reaches _update_position_from_order
FillOrder ==
    \E order \in OrdersOn(BookSymbols) :
        LET key == PositionKey(engine, order.symbol)
            pos2 == UpdatePositionFromOrder(engine, positions, order)
        IN  /\ fills < MaxFills
            /\ positions' = pos2
            /\ fills' = fills + 1
            /\ lastFill' = FillRecord(engine, positions, pos2, order, lastFill)
            /\ basis' = (key :> BasisAfter(IF key \in DOMAIN basis
                                            THEN basis[key] ELSE NoBasis,
                                           QuantityAt(positions, key), order))
                         @@ basis
            /\ UNCHANGED <<engine, signalVars, configVars, strategyVars, engineVars>>

\* the periodic price refresh
UpdatePositions ==
    \E tick \in [BookSymbols -> Prices \cup {Raise}] :
        /\ positions' = UpdatePositionsWith(positions, tick)
        /\ UNCHANGED <<engine, fills, lastFill, basis, signalVars, configVars, strategyVars, engineVars>>

\* the data collector's callback
ProcessMarketData ==
    \E symbol \in BookSymbols, price \in Prices :
        /\ positions' = ProcessMarketDataWith(engine, positions, symbol, price)
        /\ UNCHANGED <<engine, fills, lastFill, basis, signalVars, configVars, strategyVars, engineVars>>

NextBook == FillOrder \/ UpdatePositions \/ ProcessMarketData

SpecBook == InitBook /\ [][NextBook]_vars

----------------------------------------------------------------------------
(* Statements about the position book *)

FillSign == IF lastFill.side = "buy" THEN 1 ELSE -1

\* the last fill went against an open position (one not below the epsilon)
\* and every fill so far carried a price
FillOpposes ==
    /\ lastFill.applied
    /\ lastFill.priced
    /\ ~BelowEpsilon(lastFill.before.quantity)
    /\ Sign(lastFill.before.quantity) # FillSign

\* the signed quantity the last fill leaves, as plain arithmetic
FillRemainder == lastFill.before.quantity + FillSign * lastFill.quantity

\* (fill price - entry price) x closed x sign(position), added to realized_pnl
RealizedOn(closed) ==
    RAdd(lastFill.before.realized_pnl,
         RMul(RSub(RInt(lastFill.price), lastFill.before.entry_price),
              RInt(closed * Sign(lastFill.before.quantity))))

\* C1: the entry price of every open position, long or short, is the
\* quantity-weighted average price of the same-direction fills since the
\* position was last flat.
C1_EntryIsWeightedAverage ==
    \A k \in DOMAIN positions :
        positions[k].quantity # 0 =>
            /\ k \in DOMAIN basis
            /\ basis[k].qty > 0
            /\ positions[k].entry_price = Rat(basis[k].cost, basis[k].qty)

\* C2: an opposite-direction fill smaller than the open quantity leaves
\* quantity Q-q with the sign kept, adds (p - entry) x q x sign to
\* realized_pnl and keeps entry_price, for longs and for shorts.  (Stated
\* for fills that leave at least an epsilon open.)
C2_PartialCloseKeepsEntry ==
    (/\ FillOpposes
     /\ lastFill.quantity < Abs(lastFill.before.quantity)
     /\ ~BelowEpsilon(FillRemainder)) =>
        /\ lastFill.after.quantity = FillRemainder
        /\ lastFill.after.realized_pnl = RealizedOn(lastFill.quantity)
        /\ lastFill.after.entry_price = lastFill.before.entry_price

\* C3: an opposite-direction fill larger than the open quantity realizes P&L
\* on the closed portion only, and the excess is a new opposite position
\* entered at the fill price.  (Stated for an excess of at least an epsilon.)
C3_OverCloseOpensOpposite ==
    (/\ FillOpposes
     /\ lastFill.quantity > Abs(lastFill.before.quantity)
     /\ ~BelowEpsilon(FillRemainder)) =>
        /\ lastFill.after.realized_pnl =
               RealizedOn(Min(lastFill.quantity, Abs(lastFill.before.quantity)))
        /\ lastFill.after.quantity = FillRemainder
        /\ lastFill.after.entry_price = RInt(lastFill.price)

\* C4: in every state, every position has
\* unrealized_pnl = (current_price - entry_price) x quantity.
C4_UnrealizedPnlFormula ==
    \A k \in DOMAIN positions :
        LET p == positions[k]
        IN  RMul(p.unrealized_pnl, RInt(p.entry_price.d)) =
                RInt((p.current_price * p.entry_price.d - p.entry_price.n)
                     * p.quantity)

\* a short position, marked to a price other than its last fill's, with a
\* non-zero unrealized P&L
C4_Witness ==
    \E k \in DOMAIN positions :
        /\ positions[k].quantity < 0
        /\ positions[k].unrealized_pnl.n # 0
        /\ positions[k].current_price # lastFill.price

\* C5: after any fill, BUY or SELL, that brings an open position to a
\* |quantity| below the epsilon, the position is flat: quantity 0 and
\* entry_price 0.
C5_BelowEpsilonIsFlat ==
    (FillOpposes /\ BelowEpsilon(FillRemainder)) =>
        /\ lastFill.after.quantity = 0
        /\ lastFill.after.entry_price = RZero

----------------------------------------------------------------------------
(* get_combined_signal applied to every short list of BUY/SELL signals *)

SignalLists == UNION {[1..n -> TradingSignals] : n \in 0..MaxSignals}

InitSignals ==
    /\ InitPositions
    /\ signals \in SignalLists
    /\ combined_signal = NotCalled
    /\ InitEngineState
    /\ ConstructedEngine
    /\ NoStrategy

CallGetCombinedSignal ==
    /\ combined_signal = NotCalled
    /\ combined_signal' = GetCombinedSignal(signals)
    /\ UNCHANGED <<signals, bookVars, engineVars, configVars, strategyVars>>

NextSignals == CallGetCombinedSignal

SpecSignals == InitSignals /\ [][NextSignals]_vars

\* the sum of the strengths of the signals of one type, in tenths
TenthsOf(type) ==
    LET idx == {i \in 1..Len(signals) : signals[i].signal = type}
        RECURSIVE Sum(_)
        Sum(S) == IF S = {} THEN 0
                  ELSE LET i == CHOOSE j \in S : TRUE
                       IN  (signals[i].strength.n * 10) \div signals[i].strength.d
                           + Sum(S \ {i})
    IN  Sum(idx)

CountOf(type) == Cardinality({i \in 1..Len(signals) : signals[i].signal = type})

\* consensus for `type` against `other`: strictly heavier, and heavier than 0.5
Consensus(type, other) ==
    TenthsOf(type) > TenthsOf(other) /\ TenthsOf(type) > 5

\* min(weight / count, 1.0) of the signals of one type, as n/d
AverageCapped(type) ==
    IF TenthsOf(type) > 10 * CountOf(type) THEN RInt(1)
    ELSE Rat(TenthsOf(type), 10 * CountOf(type))

\* C6: get_combined_signal returns BUY with strength
\* min(buy_weight / #BUY, 1) exactly when buy_weight > sell_weight and
\* buy_weight > 0.5, SELL symmetrically, and none otherwise (tie, empty list).
C6_CombinedSignal ==
    combined_signal # NotCalled =>
        /\ Consensus("buy", "sell") =>
              /\ combined_signal.signal = "buy"
              /\ combined_signal.strength = AverageCapped("buy")
        /\ Consensus("sell", "buy") =>
              /\ combined_signal.signal = "sell"
              /\ combined_signal.strength = AverageCapped("sell")
        /\ (~Consensus("buy", "sell") /\ ~Consensus("sell", "buy")) =>
              combined_signal = NoSignal

\* [BUY 0.8, BUY 0.6, SELL 0.4] fused into BUY 0.7
C6_Witness ==
    /\ Len(signals) = 3
    /\ signals[1].signal = "buy" /\ signals[1].strength = Strength(8)
    /\ signals[2].signal = "buy" /\ signals[2].strength = Strength(6)
    /\ signals[3].signal = "sell" /\ signals[3].strength = Strength(4)
    /\ combined_signal # NotCalled
    /\ combined_signal.signal = "buy"
    /\ combined_signal.strength = Rat(7, 10)

----------------------------------------------------------------------------
(* The engine's life: start_trading, its loop of trading cycles,
   stop_trading, and the market data collector.  Neither class has a
   suspension point inside a cycle or inside stop_trading (exchange and
   database calls are synchronous), so a cycle runs from one asyncio.sleep
   to the next without interleaving: its steps below are taken with every
   other handler disabled. *)

EnginePrices == {1}

EngineStrengths == {Strength(5), Strength(8)}

\* order sizes the sizing functions return for a positive portfolio value,
\* in lots
EngineQuantities == {0, LotsPerUnit}

\* stable-currency balances get_balance returns, in lots of currency
EngineCash == {10 * LotsPerUnit}

Hold == [signal |-> "hold"]

\* what one strategy's generate_signal returns (a raise is logged and the
\* strategy skipped, as a HOLD is)
AlgorithmOutputs == {Hold} \cup [signal : SignalTypes, strength : EngineStrengths]

\* what exchange.place_order does: the returned order's status, or a raise
PlaceResults == {"pending", "filled", "rejected", "raise"}

\* what exchange.get_order_status does
StatusResults == {"pending", "filled", "cancelled", "rejected", "raise"}

EngineIdle == cyc.phase = "idle"

BeginCycle == [phase |-> "positions", i |-> 1, j |-> 1, todo |-> <<>>, pv |-> 0]

SignalOf(symbol, name, out, price) ==
    [symbol |-> symbol, strategy_name |-> name, signal |-> out.signal,
     strength |-> out.strength, price |-> price]

\* StrategyManager.generate_signals: the non-HOLD signals, in strategy order
RECURSIVE GenerateSignals(_, _, _, _)
GenerateSignals(symbol, outs, price, n) ==
    IF n = 0 THEN <<>>
    ELSE LET rest == GenerateSignals(symbol, outs, price, n - 1)
         IN  IF outs[n] = Hold THEN rest
             ELSE Append(rest, SignalOf(symbol, Algorithms[n], outs[n], price))

\* the generated signals against the side of the consensus
Dissent(sigs, combined) ==
    IF combined.signal = "buy" THEN Len(SelectSignals(sigs, "sell"))
    ELSE IF combined.signal = "sell" THEN Len(SelectSignals(sigs, "buy"))
    ELSE 0

\* (mutation of PlaceOrder: a REJECTED order is applied as a FILLED one is)
PlaceOrderAppliesRejected(eng, pos, orders, order, result) ==
    [positions |-> IF result \in {"filled", "rejected"}
                   THEN UpdatePositionFromOrder(eng, pos, order) ELSE pos,
     pending_orders |-> IF result = "pending"
                        THEN Append(orders, order) ELSE orders]

\* _place_order: a PENDING order is stored, a FILLED one applied at once; a
\* REJECTED order, or a raise of exchange.place_order, changes nothing
PlaceOrder(eng, pos, orders, order, result) ==
    [positions |-> IF result = "filled"
                   THEN UpdatePositionFromOrder(eng, pos, order) ELSE pos,
     pending_orders |-> IF result = "pending"
                        THEN Append(orders, order) ELSE orders]

\* _execute_signal / _execute_algorithm_signal.  The history entry names the
\* strategy whose signal is executed and the number of generated signals of
\* the other side that the decision overrode (dissent), the signal's strength,
\* the order's quantity, what place_order did with the order, and whether the
\* position book or the pending orders differ after the submission.
ExecuteSignal(eng, pos, orders, n, sub, signal, dissent, pv, size, result) ==
    IF PositionSize(pv, size) <= 0
    THEN [positions |-> pos, pending_orders |-> orders, placed |-> n,
          submitted |-> sub]
    ELSE LET order == [order_id |-> n + 1, symbol |-> signal.symbol,
                       side |-> signal.signal,
                       quantity |-> PositionSize(pv, size),
                       price |-> signal.price]
             done == PlaceOrder(eng, pos, orders, order, result)
         IN  [positions |-> done.positions,
              pending_orders |-> done.pending_orders,
              placed |-> n + 1,
              submitted |-> Append(sub, [symbol |-> order.symbol,
                                         side |-> order.side,
                                         algorithm |-> signal.strategy_name,
                                         dissent |-> dissent,
                                         strength |-> signal.strength,
                                         quantity |-> order.quantity,
                                         result |-> result,
                                         book_changed |->
                                             done.positions # pos,
                                         stored |->
                                             done.pending_orders # orders])]

\* a signal that passes the risk check is executed, any other is dropped
Accepted(eng, pos, signal, pv) ==
    signal.signal \in SignalTypes /\ CheckRiskLimits(eng, pos, signal, pv)

ProcessSignal(eng, pos, orders, n, sub, signal, dissent, pv, size, result) ==
    IF Accepted(eng, pos, signal, pv)
    THEN ExecuteSignal(eng, pos, orders, n, sub, signal, dissent, pv, size, result)
    ELSE [positions |-> pos, pending_orders |-> orders, placed |-> n,
          submitted |-> sub]

\* one round of DataCollector.collect_data: the symbols in order, up to the
\* first whose fetch raises (data[symbol] = Raise); each fetched ticker is
\* cached and passed to _process_market_data if that is subscribed
RECURSIVE CollectedCache(_, _, _)
CollectedCache(c, data, i) ==
    IF i > Len(SymbolList) \/ data[SymbolList[i]] = Raise THEN c
    ELSE LET symbol == SymbolList[i]
             c2 == [s \in DOMAIN c \cup {symbol} |->
                       IF s = symbol THEN data[symbol] ELSE c[s]]
         IN  CollectedCache(c2, data, i + 1)

RECURSIVE CollectedPositions(_, _, _, _)
CollectedPositions(eng, pos, data, i) ==
    IF i > Len(SymbolList) \/ data[SymbolList[i]] = Raise THEN pos
    ELSE CollectedPositions(eng,
            ProcessMarketDataWith(eng, pos, SymbolList[i], data[SymbolList[i]]),
            data, i + 1)

\* what the exchange answers in one round, per watched symbol
Tickers ==
    [{SymbolList[k] : k \in 1..Len(SymbolList)} -> EnginePrices \cup {Raise}]

\* the symbols one round of collect_data refreshes
RECURSIVE CollectedSymbols(_, _)
CollectedSymbols(data, i) ==
    IF i > Len(SymbolList) \/ data[SymbolList[i]] = Raise THEN {}
    ELSE {SymbolList[i]} \cup CollectedSymbols(data, i + 1)

\* `if self.is_running: return` of start_trading
\* (mutation of AlreadyRunning: the test is missing)
AlreadyRunningIgnored(running) == FALSE

AlreadyRunning(running) == running

\* `if not self.is_running: return` of stop_trading
\* (mutation of AlreadyStopped: the test is missing)
AlreadyStoppedIgnored(running) == FALSE

AlreadyStopped(running) == ~running

\* what a caller of start_trading or stop_trading can observe of the engine
Observed ==
    [is_running |-> is_running, bot_status |-> bot_status,
     state_status |-> state_status, loops |-> loops, monitors |-> monitors,
     subscribers |-> subscribers, positions |-> positions,
     pending_orders |-> pending_orders]

Called(op) == [op |-> op, before |-> Observed]

\* start_trading up to its first trading cycle.  commit_ok: db.commit()
\* returns; if it raises, the critical error handler awaits stop_trading.
StartTrading ==
    /\ EngineIdle
    /\ last_call' = IF is_running THEN Called("start") ELSE NoCall
    /\ IF AlreadyRunning(is_running)
       THEN UNCHANGED <<bookVars, signalVars, configVars, strategyVars, orderVars, taskVars, statusVars,
                        cycleVars>>
       ELSE \E commit_ok \in BOOLEAN :
          IF commit_ok
          THEN /\ subscribers < MaxStarts
               /\ is_running' = TRUE
               /\ bot_status' = "running"
               /\ state_status' = IF engine = "TradingEngine"
                                  THEN state_status ELSE "running"
               /\ monitors' = [monitors EXCEPT !.created = @ + 1]
               /\ subscribers' = subscribers + 1
               /\ loops' = loops + 1
               /\ cyc' = BeginCycle
               /\ stopped_with' = NotStopped
               /\ UNCHANGED <<bookVars, signalVars, configVars, strategyVars, orderVars, collecting,
                              cache, submitted>>
          ELSE \E outcome \in CancelOutcomes(pending_orders) :
               LET run == CancelPendingOrders(pending_orders, outcome)
               IN  /\ is_running' = FALSE
                   /\ collecting' = FALSE
                   /\ pending_orders' = run.pending
                   /\ bot_status' = StoppedBotStatus(run, "running")
                   /\ state_status' = StoppedStateStatus(engine, run, state_status)
                   /\ stopped_with' = [called |-> TRUE,
                                       pending |-> OrderIds(pending_orders),
                                       attempted |-> run.attempted,
                                       completed |-> run.completed]
                   /\ UNCHANGED <<bookVars, signalVars, configVars, strategyVars, placed, loops, monitors,
                                  subscribers, cycleVars>>

\* stop_trading
StopTrading ==
    /\ EngineIdle
    /\ last_call' = IF is_running THEN NoCall ELSE Called("stop")
    /\ IF AlreadyStopped(is_running)
       THEN UNCHANGED <<bookVars, signalVars, configVars, strategyVars, orderVars, taskVars, statusVars,
                        cycleVars>>
       ELSE \E outcome \in CancelOutcomes(pending_orders) :
            LET run == CancelPendingOrders(pending_orders, outcome)
            IN  /\ is_running' = FALSE
                /\ collecting' = FALSE
                /\ pending_orders' = run.pending
                /\ bot_status' = StoppedBotStatus(run, bot_status)
                /\ state_status' = StoppedStateStatus(engine, run, state_status)
                /\ stopped_with' = [called |-> TRUE,
                                    pending |-> OrderIds(pending_orders),
                                    attempted |-> run.attempted,
                                    completed |-> run.completed]
                /\ UNCHANGED <<bookVars, signalVars, configVars, strategyVars, placed, loops, monitors,
                               subscribers, cycleVars>>

\* `while self.is_running` of start_trading
\* (mutation of LoopContinues: the loop task ends after a cycle)
LoopContinuesNever(running) == FALSE

LoopContinues(running) == running

\* a loop task returns from asyncio.sleep (60 s after a cycle, 30 s after an
\* error) and tests `while self.is_running`
LoopWake ==
    /\ EngineIdle
    /\ loops > 0
    /\ IF LoopContinues(is_running)
       THEN /\ cyc' = BeginCycle
            /\ UNCHANGED loops
       ELSE /\ loops' = loops - 1
            /\ UNCHANGED cyc
    /\ last_call' = NoCall
    /\ UNCHANGED <<bookVars, signalVars, configVars, strategyVars, orderVars, monitors, collecting,
                   subscribers, statusVars, cache, submitted>>

\* the cycle's _update_positions()
CycleUpdatePositions ==
    /\ cyc.phase = "positions"
    /\ \E tick \in Tickers :
          positions' = UpdatePositionsWith(positions, tick)
    /\ cyc' = [cyc EXCEPT !.phase = "pending", !.todo = pending_orders]
    /\ last_call' = NoCall
    /\ UNCHANGED <<engine, fills, lastFill, basis, signalVars, configVars, strategyVars, orderVars,
                   taskVars, statusVars, cache, submitted>>

\* _check_pending_orders(), one order of list(self.pending_orders.items())
CycleCheckPendingOrder ==
    /\ cyc.phase = "pending"
    /\ cyc.i <= Len(cyc.todo)
    /\ LET order == cyc.todo[cyc.i]
       IN  \E status \in StatusResults :
              /\ positions' =
                    IF status = "filled"
                    THEN UpdatePositionFromOrder(engine, positions, order)
                    ELSE positions
              /\ pending_orders' =
                    IF status \in {"filled", "cancelled", "rejected"}
                    THEN RemoveOrder(pending_orders, order.order_id)
                    ELSE pending_orders
    /\ cyc' = [cyc EXCEPT !.i = @ + 1]
    /\ UNCHANGED last_call
    /\ UNCHANGED <<engine, fills, lastFill, basis, signalVars, configVars, strategyVars, placed,
                   taskVars, statusVars, cache, submitted>>

\* _calculate_portfolio_value()
CyclePortfolioValue ==
    /\ cyc.phase = "pending"
    /\ cyc.i > Len(cyc.todo)
    /\ \E cash \in EngineCash \cup {Raise} :
          cyc' = [phase |-> "symbols", i |-> 1, j |-> 1, todo |-> <<>>,
                  pv |-> PortfolioValue(positions, cash)]
    /\ UNCHANGED last_call
    /\ UNCHANGED <<bookVars, signalVars, configVars, strategyVars, orderVars, taskVars, statusVars,
                   cache, submitted>>

\* TradingEngine._process_symbol for the next symbol of the cycle
CycleProcessSymbol ==
    /\ cyc.phase = "symbols"
    /\ cyc.i <= Len(SymbolList)
    /\ ~ExecutesPerAlgorithm(engine)
    /\ LET symbol == SymbolList[cyc.i]
       IN  IF symbol \in DOMAIN cache
           THEN \E outs \in [1..Len(Algorithms) -> AlgorithmOutputs] :
                LET sigs == GenerateSignals(symbol, outs, cache[symbol],
                                            Len(Algorithms))
                    combined == GetCombinedSignal(sigs)
                IN  IF Accepted(engine, positions, combined, cyc.pv)
                    THEN \E size \in EngineQuantities, result \in PlaceResults :
                         LET done == ProcessSignal(engine, positions,
                                        pending_orders, placed, submitted,
                                        combined, Dissent(sigs, combined),
                                        cyc.pv, size, result)
                         IN  /\ done.placed <= MaxOrders
                             /\ positions' = done.positions
                             /\ pending_orders' = done.pending_orders
                             /\ placed' = done.placed
                             /\ submitted' = done.submitted
                    ELSE UNCHANGED <<positions, orderVars, submitted>>
           ELSE UNCHANGED <<positions, orderVars, submitted>>
    /\ cyc' = [cyc EXCEPT !.i = @ + 1]
    /\ UNCHANGED last_call
    /\ UNCHANGED <<engine, fills, lastFill, basis, signalVars, configVars, strategyVars, taskVars,
                   statusVars, cache>>

\* EnhancedTradingEngine._process_symbol_with_algorithms, one algorithm of
\* the loop over algorithm_instances for the cycle's current symbol
CycleProcessAlgorithm ==
    /\ cyc.phase = "symbols"
    /\ cyc.i <= Len(SymbolList)
    /\ ExecutesPerAlgorithm(engine)
    /\ LET symbol == SymbolList[cyc.i]
           last == cyc.j = Len(Algorithms)
       IN  IF symbol \in DOMAIN cache /\ cyc.j <= Len(Algorithms)
           THEN /\ \E out \in AlgorithmOutputs :
                   LET signal == IF out = Hold THEN Hold
                                 ELSE SignalOf(symbol, Algorithms[cyc.j], out,
                                               cache[symbol])
                   IN  IF Accepted(engine, positions, signal, cyc.pv)
                       THEN \E size \in EngineQuantities, result \in PlaceResults :
                            LET done == ProcessSignal(engine, positions,
                                           pending_orders, placed, submitted,
                                           signal, 0, cyc.pv, size, result)
                            IN  /\ done.placed <= MaxOrders
                                /\ positions' = done.positions
                                /\ pending_orders' = done.pending_orders
                                /\ placed' = done.placed
                                /\ submitted' = done.submitted
                       ELSE UNCHANGED <<positions, orderVars, submitted>>
                /\ cyc' = IF last
                          THEN [cyc EXCEPT !.i = @ + 1, !.j = 1]
                          ELSE [cyc EXCEPT !.j = @ + 1]
           ELSE /\ cyc' = [cyc EXCEPT !.i = @ + 1, !.j = 1]
                /\ UNCHANGED <<positions, orderVars, submitted>>
    /\ UNCHANGED last_call
    /\ UNCHANGED <<engine, fills, lastFill, basis, signalVars, configVars, strategyVars, taskVars,
                   statusVars, cache>>

\* the metrics update that ends the cycle; the loop then sleeps
CycleFinish ==
    /\ cyc.phase = "symbols"
    /\ cyc.i > Len(SymbolList)
    /\ cyc' = NoCycle
    /\ submitted' = <<>>
    /\ UNCHANGED last_call
    /\ UNCHANGED <<bookVars, signalVars, configVars, strategyVars, orderVars, taskVars, statusVars, cache>>

\* a start_monitoring task runs: it enters collect_data, which sets
\* data_collector.is_running and collects a first round
MonitorStart ==
    /\ EngineIdle
    /\ monitors.created > 0
    /\ monitors' = [created |-> monitors.created - 1,
                    looping |-> monitors.looping + 1]
    /\ collecting' = TRUE
    /\ \E data \in Tickers :
          /\ cache' = CollectedCache(cache, data, 1)
          /\ positions' = CollectedPositions(engine, positions, data, 1)
    /\ last_call' = NoCall
    /\ UNCHANGED <<engine, fills, lastFill, basis, signalVars, configVars, strategyVars, orderVars,
                   loops, subscribers, statusVars, cyc, submitted>>

\* a collect_data task returns from asyncio.sleep and tests
\* `while self.is_running`
CollectRoundWith(data, call) ==
    /\ EngineIdle
    /\ monitors.looping > 0
    /\ IF collecting
       THEN /\ cache' = CollectedCache(cache, data, 1)
            /\ positions' = CollectedPositions(engine, positions, data, 1)
            /\ last_call' = call
            /\ UNCHANGED monitors
       ELSE /\ monitors' = [monitors EXCEPT !.looping = @ - 1]
            /\ last_call' = NoCall
            /\ UNCHANGED <<positions, cache>>
    /\ UNCHANGED <<engine, fills, lastFill, basis, signalVars, configVars, strategyVars, orderVars,
                   loops, collecting, subscribers, statusVars, cyc, submitted>>

CollectRound == \E data \in Tickers : CollectRoundWith(data, NoCall)

\* time passes: a cached entry grows older than cache_duration (the cache
\* holds the entries get_cached_market_data still returns)
CacheExpire ==
    /\ EngineIdle
    /\ \E symbol \in DOMAIN cache :
          cache' = IF DOMAIN cache = {symbol} THEN <<>>
                   ELSE [s \in DOMAIN cache \ {symbol} |-> cache[s]]
    /\ last_call' = NoCall
    /\ UNCHANGED <<bookVars, signalVars, configVars, strategyVars, orderVars, taskVars, statusVars, cyc,
                   submitted>>

InitEngine ==
    InitPositions /\ NoSignals /\ InitEngineState /\ ConstructedEngine
    /\ NoStrategy

NextEngine ==
    \/ StartTrading
    \/ StopTrading
    \/ LoopWake
    \/ CycleUpdatePositions
    \/ CycleCheckPendingOrder
    \/ CyclePortfolioValue
    \/ CycleProcessSymbol
    \/ CycleProcessAlgorithm
    \/ CycleFinish
    \/ MonitorStart
    \/ CollectRound
    \/ CacheExpire

SpecEngine == InitEngine /\ [][NextEngine]_vars

\* the steps of a trading cycle, which no await interrupts
CycleStep ==
    \/ CycleUpdatePositions
    \/ CycleCheckPendingOrder
    \/ CyclePortfolioValue
    \/ CycleProcessSymbol
    \/ CycleProcessAlgorithm
    \/ CycleFinish

\* an engine on which stop_trading is never called
NextRun ==
    \/ StartTrading
    \/ LoopWake
    \/ CycleStep
    \/ MonitorStart
    \/ CollectRound
    \/ CacheExpire

----------------------------------------------------------------------------
(* EnhancedTradingEngineManager.start_bot on a bot of any configuration,
   and the engine it starts; stop_bot comes with the registry below *)

UnknownType == "Martingale"

UnknownExchange == "kraken"

Configurations ==
    [exchange : ExchangeNames \cup {UnknownExchange},
     algorithms : {<<AlgorithmConfig("algo1", t1), AlgorithmConfig("algo2", t2)>> :
                      t1 \in StrategyTypes \cup {UnknownType},
                      t2 \in StrategyTypes \cup {UnknownType}},
     symbols : {<<"AAPL">>}]

InitManager ==
    /\ InitPositions /\ NoSignals /\ InitEngineState /\ NoStrategy
    /\ engine = "EnhancedTradingEngine"
    /\ configuration \in Configurations
    /\ exchange = "none"
    /\ algorithm_instances = <<>>
    /\ engines = NoManager

\* start_bot: the engine is constructed (found: _load_bot finds the bot's
\* row), registered, and its start_trading task created
StartBot ==
    /\ EngineIdle
    /\ IF engines.registered
       THEN /\ engines' = [engines EXCEPT !.returned = "false"]
            /\ UNCHANGED <<exchange, algorithm_instances>>
       ELSE \E found \in BOOLEAN :
              IF found
              THEN /\ exchange' = InitializeExchange(configuration.exchange)
                   /\ algorithm_instances' =
                          LoadAlgorithms(configuration.algorithms)
                   /\ engines' = [registered |-> TRUE, returned |-> "true"]
              ELSE /\ engines' = [registered |-> FALSE, returned |-> "false"]
                   /\ UNCHANGED <<exchange, algorithm_instances>>
    /\ UNCHANGED <<configuration, bookVars, signalVars, engineVars, strategyVars>>

\* the task start_bot created runs the engine's start_trading
StartBotTask == engines.registered /\ StartTrading

\* stop_bot: a registered engine's stop_trading is awaited (a no-op on an
\* engine that is not running) and the engine deleted from the registry
StopBot ==
    /\ EngineIdle
    /\ last_call' = NoCall
    /\ IF ~engines.registered
       THEN /\ engines' = [engines EXCEPT !.returned = "false"]
            /\ UNCHANGED <<orderVars, taskVars, statusVars, stopped_with>>
       ELSE /\ engines' = [registered |-> FALSE, returned |-> "true"]
            /\ IF AlreadyStopped(is_running)
               THEN UNCHANGED <<orderVars, taskVars, statusVars, stopped_with>>
               ELSE \E outcome \in CancelOutcomes(pending_orders) :
                    LET run == CancelPendingOrders(pending_orders, outcome)
                    IN  /\ is_running' = FALSE
                        /\ collecting' = FALSE
                        /\ pending_orders' = run.pending
                        /\ bot_status' = StoppedBotStatus(run, bot_status)
                        /\ state_status' =
                               StoppedStateStatus(engine, run, state_status)
                        /\ stopped_with' =
                               [called |-> TRUE,
                                pending |-> OrderIds(pending_orders),
                                attempted |-> run.attempted,
                                completed |-> run.completed]
                        /\ UNCHANGED <<placed, loops, monitors, subscribers>>
    /\ UNCHANGED <<bookVars, signalVars, strategyVars, configuration, exchange,
                   algorithm_instances, cache, cyc, submitted>>

NextManager ==
    \/ StartBot
    \/ StartBotTask
    \/ LoopWake
    \/ CycleUpdatePositions
    \/ CycleCheckPendingOrder
    \/ CyclePortfolioValue
    \/ CycleProcessAlgorithm
    \/ CycleFinish
    \/ MonitorStart
    \/ CollectRound
    \/ CacheExpire

SpecManager == InitManager /\ [][NextManager]_vars

----------------------------------------------------------------------------
(* An engine watching two symbols, with each collection round observed
   (stop_trading is not called) *)

WatchedConfiguration ==
    [DefaultConfiguration EXCEPT !.symbols = <<"AAPL", "MSFT">>]

InitWatch ==
    /\ InitPositions /\ NoSignals /\ InitEngineState /\ NoStrategy
    /\ configuration = WatchedConfiguration
    /\ exchange = InitializeExchange(configuration.exchange)
    /\ algorithm_instances = LoadAlgorithms(configuration.algorithms)
    /\ engines = NoManager

\* history: the tickers of the round and the symbols it refreshed
Collected(data) ==
    [op |-> "collect",
     before |-> [data |-> data, refreshed |-> CollectedSymbols(data, 1)]]

CollectData == \E data \in Tickers : CollectRoundWith(data, Collected(data))

NextWatch ==
    \/ StartTrading
    \/ LoopWake
    \/ CycleStep
    \/ MonitorStart
    \/ CollectData
    \/ CacheExpire

SpecWatch == InitWatch /\ [][NextWatch]_vars

\* the event loop runs a cycle to its end and wakes a sleeping loop task
SpecEngineRun ==
    InitEngine /\ [][NextRun]_vars /\ WF_vars(CycleStep) /\ WF_vars(LoopWake)

----------------------------------------------------------------------------
(* Statements about the engine *)

SameSymbol(a, b) == a # b /\ submitted[a].symbol = submitted[b].symbol

C8_StopEndsStopped ==
    stopped_with.called => ~is_running /\ bot_status = "stopped"

\* C9: when stop_trading is called, a cancellation is attempted for every
\* order that is in pending_orders at that moment.
C9_EveryPendingOrderAttempted ==
    stopped_with.called => stopped_with.attempted = stopped_with.pending

\* C10: for any interleaving of start and stop calls on one engine, at most
\* one trading loop is active (cycles themselves cannot overlap: a cycle has
\* no suspension point).
C10_SingleTradingLoop == is_running => loops <= 1

\* C11: start_trading on an engine that is already running is a no-op:
\* is_running stays true, no second trading loop or market data monitor is
\* created, no further subscriber is registered, positions and pending orders
\* are unchanged.
C11_StartOnRunningIsNoOp ==
    last_call.op = "start" => is_running /\ Observed = last_call.before

\* start_trading has returned on a running engine that holds a pending order
C11_Witness ==
    /\ last_call.op = "start"
    /\ last_call.before.is_running
    /\ last_call.before.pending_orders # <<>>

\* C12: stop_trading on an engine that is already stopped, called once or
\* several times in a row, changes no state (is_running, the bot's status,
\* positions, pending orders); the early return cannot raise.
C12_StopOnStoppedIsNoOp ==
    last_call.op = "stop" => ~is_running /\ Observed = last_call.before

\* stop_trading has returned on an engine that an earlier stop_trading had
\* stopped
C12_Witness ==
    /\ last_call.op = "stop"
    /\ ~last_call.before.is_running
    /\ stopped_with.called

\* C13: a failure inside a trading cycle (while updating positions, checking
\* pending orders, computing the portfolio value, processing a symbol or
\* updating metrics) never takes the engine out of running: is_running is
\* true throughout the cycle and, stop_trading not being called, a next
\* cycle is eventually begun.
C13_CycleFailureIsNotFatal ==
    /\ [](~EngineIdle => is_running)
    /\ (cyc.phase \in {"pending", "symbols"}) ~> (cyc.phase = "positions")

\* a cycle goes on after _calculate_portfolio_value has failed (it returns
\* 0.0 only from its except clause: no balance of EngineCash is zero)
C13_Witness ==
    /\ cyc.phase = "symbols"
    /\ cyc.pv = 0
    /\ is_running

----------------------------------------------------------------------------
(* Statements about start_bot *)

InvalidConfiguration ==
    \/ \E k \in 1..Len(configuration.algorithms) :
          configuration.algorithms[k].algorithm_type \notin StrategyTypes
    \/ configuration.exchange \notin ExchangeNames

\* C14: with an invalid configuration (an enabled algorithm of unknown kind,
\* or an exchange that cannot be initialised) the bot never reaches Running:
\* the engine stays stopped and start_bot does not report success.
C14_InvalidConfigurationNeverRuns ==
    InvalidConfiguration =>
        /\ ~is_running
        /\ bot_status # "running"
        /\ engines.returned # "true"

----------------------------------------------------------------------------
(* Statements about a collection round *)

\* C15: when the fetch of one watched symbol fails in a collection round,
\* every other watched symbol, before or after it in the list, is still
\* refreshed in that round (and so is in the cache the cycle reads).
C15_OtherSymbolsRefreshed ==
    last_call.op = "collect" =>
        \A s \in DOMAIN last_call.before.data :
            last_call.before.data[s] # Raise =>
                /\ s \in last_call.before.refreshed
                /\ s \in DOMAIN cache

----------------------------------------------------------------------------
(* Statements about the execution of signals *)

Refused(a) == submitted[a].result \in {"rejected", "raise"}

\* C16: when the exchange rejects an order or its submission raises, the
\* position book is left as it was (and the order is not kept as pending),
\* and the cycle submits no second order for the same signal.
C16_RefusedOrderChangesNothing ==
    \A a \in DOMAIN submitted :
       Refused(a) =>
          /\ ~submitted[a].book_changed
          /\ ~submitted[a].stored
          /\ \A b \in DOMAIN submitted :
                SameSymbol(a, b) =>
                   submitted[a].algorithm # submitted[b].algorithm

\* an engine holds a position and, in the cycle in progress, an order for the
\* position's symbol was rejected or raised
C16_Witness ==
    \E a \in DOMAIN submitted :
       /\ Refused(a)
       /\ \E k \in DOMAIN positions :
             /\ positions[k].symbol = submitted[a].symbol
             /\ positions[k].quantity # 0

\* C17: in both engines no order is submitted for a signal, of one strategy
\* or of the consensus, whose strength is below 0.6.
C17_NoOrderBelowMinStrength ==
    \A a \in DOMAIN submitted : ~RLess(submitted[a].strength, MinStrength)

\* two orders of the cycle in progress for signals of one algorithm (the
\* cycle runs from one sleep of the loop to the next, with no wait inside)
SameAlgorithm(a, b) ==
    /\ a # b
    /\ ExecutesPerAlgorithm(engine)
    /\ submitted[a].algorithm = submitted[b].algorithm

\* C18: two signals of one strategy that are accepted for execution are at
\* least min_signal_interval (60 s) apart: never both within one cycle.
C18_CooldownBetweenAcceptedSignals ==
    MinSignalInterval > 0 =>
        \A a, b \in DOMAIN submitted : ~SameAlgorithm(a, b)

\* C19: once a filled BUY has brought a strategy's position to
\* max_position_size or beyond, no further BUY signal of that strategy is
\* accepted (and the same for SELL and -max_position_size).
C19_PositionLimit ==
    \A a, b \in DOMAIN submitted :
       (/\ SameAlgorithm(a, b)
        /\ a < b
        /\ submitted[a].result = "filled"
        /\ submitted[a].quantity >= MaxPositionSize)
       => submitted[b].side # submitted[a].side

\* the signals the cycle in progress may hand to the risk check for a symbol
CheckedSignals(symbol) ==
    {SignalOf(symbol, name, out, price) :
        name \in {Algorithms[k] : k \in 1..Len(Algorithms)},
        out \in AlgorithmOutputs \ {Hold},
        price \in EnginePrices}

\* C20: whatever the portfolio value (positive, zero or negative), while the
\* exposure is more than max_portfolio_risk (1/5) of the portfolio value the
\* risk check of the cycle rejects every signal.
C20_ExposureLimit ==
    (/\ cyc.phase = "symbols"
     /\ TotalExposure(positions) * RiskRatioDen > cyc.pv)
    => \A k \in 1..Len(SymbolList) :
          \A signal \in CheckedSignals(SymbolList[k]) :
             ~Accepted(engine, positions, signal, cyc.pv)

----------------------------------------------------------------------------
(* StrategyManager.generate_signals and AdvancedStrategyManager.
   generate_signals on every short list of strategies.  `engine` tells whose
   strategy_manager it is: TradingEngine has a StrategyManager,
   EnhancedTradingEngine an AdvancedStrategyManager. *)

\* the names of get_default_strategies, in its order
StrategyNames ==
    <<"TechnicalIndicatorStrategy", "TrendFollowingStrategy", "DCAStrategy",
      "GridTradingStrategy">>

Raised == [signal |-> "raise"]

\* what one strategy's generate_signal does when called
StrategyOutputs ==
    {Hold, Raised} \cup [signal : SignalTypes, strength : {Strength(8)}]

NoReturn == [op |-> "none"]

StrategyLists ==
    UNION {[1..n -> [is_active : BOOLEAN, symbol : Symbols]] :
              n \in 0..MaxStrategies}

\* AdvancedStrategyManager asks only the strategies configured for the symbol
AsksStrategy(eng, strat, symbol) ==
    /\ strat.is_active
    /\ eng = "EnhancedTradingEngine" => strat.symbol = symbol

\* (mutation of ManagerGenerateSignals: one try around the whole loop, so
\* the first raise ends the call)
RECURSIVE ManagerGenerateSignalsOneTry(_, _, _, _, _, _)
ManagerGenerateSignalsOneTry(eng, strategies, symbol, outs, price, k) ==
    IF k > Len(strategies) THEN <<>>
    ELSE IF AsksStrategy(eng, strategies[k], symbol) /\ outs[k] = Raised
         THEN <<>>
         ELSE LET rest == ManagerGenerateSignalsOneTry(eng, strategies, symbol,
                                                       outs, price, k + 1)
              IN  IF /\ AsksStrategy(eng, strategies[k], symbol)
                     /\ outs[k].signal \in SignalTypes
                  THEN <<SignalOf(symbol, StrategyNames[k], outs[k], price)>>
                          \o rest
                  ELSE rest

\* generate_signals from strategy k on: each strategy is called inside its
\* own try; a raise is logged, a HOLD is dropped
RECURSIVE ManagerGenerateSignals(_, _, _, _, _, _)
ManagerGenerateSignals(eng, strategies, symbol, outs, price, k) ==
    IF k > Len(strategies) THEN <<>>
    ELSE LET rest == ManagerGenerateSignals(eng, strategies, symbol, outs,
                                            price, k + 1)
         IN  IF /\ AsksStrategy(eng, strategies[k], symbol)
                /\ outs[k].signal \in SignalTypes
             THEN <<SignalOf(symbol, StrategyNames[k], outs[k], price)>> \o rest
             ELSE rest

InitGenerate ==
    /\ InitPositions /\ NoSignals /\ InitEngineState /\ ConstructedEngine
    /\ instance \in StrategyLists
    /\ returned = NoReturn

CallGenerateSignals ==
    /\ returned = NoReturn
    /\ \E symbol \in Symbols, outs \in [1..Len(instance) -> StrategyOutputs],
       price \in EnginePrices :
        returned' =
              [op |-> "generate_signals", symbol |-> symbol, outs |-> outs,
               price |-> price,
               signals |-> ManagerGenerateSignals(engine, instance, symbol,
                                                  outs, price, 1)]
    /\ UNCHANGED <<instance, bookVars, signalVars, engineVars, configVars>>

NextGenerate == CallGenerateSignals

SpecGenerate == InitGenerate /\ [][NextGenerate]_vars

\* strategy k was asked, did not raise and did not return HOLD
Contributes(k) ==
    /\ AsksStrategy(engine, instance[k], returned.symbol)
    /\ returned.outs[k].signal \in SignalTypes

Contributors == {k \in 1..Len(instance) : Contributes(k)}

\* the i-th contributing strategy, in list order
Contributor(i) ==
    CHOOSE k \in Contributors :
        Cardinality({j \in Contributors : j <= k}) = i

\* C21: generate_signals returns, in strategy order, the non-HOLD signal of
\* every asked strategy that does not raise, whatever the other strategies
\* do and wherever the raising ones stand; nothing else is returned.
C21_OneFailingStrategyBlocksNone ==
    returned.op = "generate_signals" =>
        /\ Len(returned.signals) = Cardinality(Contributors)
        /\ \A i \in 1..Len(returned.signals) :
              returned.signals[i] =
                  SignalOf(returned.symbol, StrategyNames[Contributor(i)],
                           returned.outs[Contributor(i)], returned.price)

\* the first strategy raised and the second one's signal was returned
C21_Witness ==
    /\ returned.op = "generate_signals"
    /\ Len(instance) >= 2
    /\ AsksStrategy(engine, instance[1], returned.symbol)
    /\ returned.outs[1] = Raised
    /\ Contributes(2)
    /\ Len(returned.signals) = 1

----------------------------------------------------------------------------
(* One DCA strategy under any sequence of generate_signal calls with a
   non-decreasing clock.  `engine` tells whose strategy it is: DCAStrategy
   (trading_strategies, interval_hours) for TradingEngine, DynamicDCAStrategy
   (advanced_trading_strategies, dca_interval) for EnhancedTradingEngine. *)

SecondsPerHour == 3600

\* the interval in seconds
DCAInterval(eng, interval) ==
    IF eng = "TradingEngine" THEN interval * SecondsPerHour ELSE interval

\* the clock is read in steps of half an hour for DCAStrategy and of one
\* second for DynamicDCAStrategy
ClockStep(eng) == IF eng = "TradingEngine" THEN SecondsPerHour \div 2 ELSE 1

NoTime == 0 - 1

\* the strength of the BUY: 0.6 raised by the volatility (DCAStrategy), or
\* 0.8 times the volatility adjustment, capped at 1 (DynamicDCAStrategy);
\* Raised when the volatility computation raises
DCAStrengths(eng) ==
    IF eng = "TradingEngine"
    THEN {Strength(6), Strength(8), RInt(1), Raised}
    ELSE {Strength(8), RMin(RMul(Strength(8), Rat(12, 10)), RInt(1)),
          RMin(RMul(Strength(8), Rat(15, 10)), RInt(1)), Raised}

\* (mutation of DCAIntervalNotReached: the gate is missing)
DCAIntervalNotReachedNever(eng, strat, current_time) == FALSE

\* `current_time - self.last_dca_time < self.dca_interval`
DCAIntervalNotReached(eng, strat, current_time) ==
    current_time - strat.last_dca_time < DCAInterval(eng, strat.dca_interval)

\* generate_signal: the signal returned (Raised for an exception) and the
\* strategy afterwards
DCAGenerateSignal(eng, strat, current_time, strength) ==
    IF DCAIntervalNotReached(eng, strat, current_time)
    THEN [signal |-> [signal |-> "hold", strength |-> RZero,
                      reason |-> "interval_not_reached"],
          strategy |-> strat]
    ELSE IF strength = Raised
    THEN [signal |-> Raised, strategy |-> strat]
    ELSE [signal |-> [signal |-> "buy", strength |-> strength],
          strategy |-> [strat EXCEPT !.last_dca_time = current_time]]

InitDCA ==
    /\ InitPositions /\ NoSignals /\ InitEngineState /\ ConstructedEngine
    /\ \E interval \in 0..MaxInterval :
          instance = [dca_interval |-> interval, last_dca_time |-> 0]
    /\ returned = [op |-> "none", time |-> 0, previous_buy |-> NoTime,
                   signal |-> Hold]

\* a call of generate_signal at a clock reading not before the last one;
\* previous_buy is the time of the latest BUY returned before this call
CallDCAGenerateSignal ==
    \E n \in 0..MaxClock, strength \in DCAStrengths(engine) :
        LET now == n * ClockStep(engine)
            done == DCAGenerateSignal(engine, instance, now, strength)
        IN  /\ now >= returned.time
            /\ instance' = done.strategy
            /\ returned' =
                  [op |-> "generate_signal", time |-> now,
                   previous_buy |-> IF returned.signal.signal = "buy"
                                    THEN returned.time
                                    ELSE returned.previous_buy,
                   signal |-> done.signal]
            /\ UNCHANGED <<bookVars, signalVars, engineVars, configVars>>

NextDCA == CallDCAGenerateSignal

SpecDCA == InitDCA /\ [][NextDCA]_vars

\* C22: a DCA strategy never fires more than once per interval: a call that
\* returns BUY comes at least dca_interval seconds after the latest BUY
\* before it (and so, the clock not decreasing, after every earlier BUY).
C22_OncePerInterval ==
    (/\ returned.signal.signal = "buy"
     /\ returned.previous_buy # NoTime)
    => returned.time - returned.previous_buy
          >= DCAInterval(engine, instance.dca_interval)

\* a second BUY, after a positive interval has passed
C22_Witness ==
    /\ returned.signal.signal = "buy"
    /\ returned.previous_buy # NoTime
    /\ instance.dca_interval > 0
    /\ returned.time > returned.previous_buy

----------------------------------------------------------------------------
(* One GridTradingStrategy (advanced_trading_strategies) under any sequence
   of generate_signal calls.  Prices are integers, in units of 1/20 of a
   currency unit, and the grid is computed in exact rationals. *)

\* the default grid_spacing, 0.02
GridSpacing == Rat(2, 100)

\* "within 0.1% of level"
LevelTolerance == Rat(1, 1000)

\* ticker prices: a centre, its two first grid levels, prices just outside
\* each of them, and prices far outside
GridPrices == {1900, 1959, 1960, 2000, 2040, 2041, 2100}

\* price_range = None
NoPriceRange ==
    [is_none |-> TRUE, center |-> RZero, top |-> RZero, bottom |-> RZero]

\* the levels number 1 to n on one side of the centre (direction 1 or -1)
RECURSIVE GridLevelsFrom(_, _, _, _)
GridLevelsFrom(price, direction, i, n) ==
    IF i > n THEN <<>>
    ELSE <<RMul(RInt(price),
                RAdd(RInt(1), RMul(RInt(direction * i), GridSpacing)))>>
            \o GridLevelsFrom(price, direction, i + 1, n)

\* setup_grid
SetupGrid(strat, current_price) ==
    LET half == RDivInt(RMul(GridSpacing, RInt(strat.grid_levels)), 2)
    IN  [strat EXCEPT
           !.price_range =
               [is_none |-> FALSE, center |-> RInt(current_price),
                top |-> RMul(RInt(current_price), RAdd(RInt(1), half)),
                bottom |-> RMul(RInt(current_price), RSub(RInt(1), half))],
           !.buy_levels = GridLevelsFrom(current_price, 0 - 1, 1,
                                         strat.grid_levels \div 2),
           !.sell_levels = GridLevelsFrom(current_price, 1, 1,
                                          strat.grid_levels \div 2)]

\* abs(current_price - level) / level < 0.001, for a level above zero
HitsLevel(current_price, level) ==
    LET diff == RSub(RInt(current_price), level)
        dist == IF diff.n < 0 THEN RSub(RZero, diff) ELSE diff
    IN  RLess(dist, RMul(LevelTolerance, level))

HitsAny(current_price, levels) ==
    \E i \in 1..Len(levels) : HitsLevel(current_price, levels[i])

OutsideRange(current_price, range) ==
    \/ RLess(range.top, RInt(current_price))
    \/ RLess(RInt(current_price), range.bottom)

\* generate_signal: the grid is set up on the first call; later a price on a
\* buy level returns BUY, on a sell level SELL, and only a price on no level
\* reaches the test that resets the grid
GridGenerateSignal(strat, current_price) ==
    IF strat.price_range.is_none
    THEN [signal |-> [signal |-> "hold", strength |-> RZero,
                      reason |-> "grid_initialized"],
          strategy |-> SetupGrid(strat, current_price)]
    ELSE IF HitsAny(current_price, strat.buy_levels)
    THEN [signal |-> [signal |-> "buy", strength |-> Strength(8)],
          strategy |-> strat]
    ELSE IF HitsAny(current_price, strat.sell_levels)
    THEN [signal |-> [signal |-> "sell", strength |-> Strength(8)],
          strategy |-> strat]
    ELSE [signal |-> [signal |-> "hold", strength |-> RZero,
                      reason |-> "no_grid_trigger"],
          strategy |-> IF OutsideRange(current_price, strat.price_range)
                       THEN SetupGrid(strat, current_price) ELSE strat]

InitGrid ==
    /\ InitPositions /\ NoSignals /\ InitEngineState /\ ConstructedEngine
    /\ engine = "EnhancedTradingEngine"
    /\ \E levels \in 0..MaxLevels :
          instance = [grid_levels |-> levels, price_range |-> NoPriceRange,
                      buy_levels |-> <<>>, sell_levels |-> <<>>]
    /\ returned = [op |-> "none", price |-> 0, before |-> NoPriceRange,
                   signal |-> Hold]

\* a call of generate_signal; before: the price_range the call found
CallGridGenerateSignal ==
    \E current_price \in GridPrices :
        LET done == GridGenerateSignal(instance, current_price)
        IN  /\ instance' = done.strategy
            /\ returned' = [op |-> "generate_signal", price |-> current_price,
                            before |-> instance.price_range,
                            signal |-> done.signal]
            /\ UNCHANGED <<bookVars, signalVars, engineVars, configVars>>

NextGrid == CallGridGenerateSignal

SpecGrid == InitGrid /\ [][NextGrid]_vars

\* C23: after every generate_signal call on an initialised grid with a price
\* above the band's top or below its bottom, the grid is centred on that
\* price.
C23_ReanchoredOutsideBand ==
    (/\ returned.op = "generate_signal"
     /\ ~returned.before.is_none
     /\ OutsideRange(returned.price, returned.before))
    => instance.price_range.center = RInt(returned.price)


\* ---- candle-based strategies: generate_signal on short histories ----------
\* (SpecCandles).  A candle list is modelled by its length and by the values
\* the indicators take on it.

\* calculate_all_indicators returns {} on fewer candles than this
MinIndicatorCandles == 50

\* the 200-period moving average exists from this many closes on
Sma200Period == 200

\* MLModelStrategy.prepare_features returns None on fewer candles than this
MinFeatureCandles == 20

\* the ticker's price, and the values a moving average is given
TickerPrice == 100

Averages == {90, 100, 110}

\* lengths of the candle list
CandleCounts == {0, 10, 19, 20, 30, 49, 50, 150, 199, 200}

\* slow_ma_period (20 to 500 in the parameter form, 200 by default)
SlowMaPeriods == {20, 100, 200}

\* confidence_threshold (0.65 by default)
ConfidenceThresholds == {Rat(40, 100), Rat(65, 100), Rat(80, 100)}

CandleStrategies ==
    [name : {"TrendFollowingStrategy"}, slow_ma_period : SlowMaPeriods,
     talib : BOOLEAN]
    \cup [name : {"AdvancedTechnicalIndicatorStrategy"}, talib : BOOLEAN]
    \cup [name : {"MLModelStrategy"}, confidence_threshold : ConfidenceThresholds]

Votes == {"BUY", "SELL", "none"}

\* what the candles' contents decide, for each strategy
Markets(strat) ==
    CASE strat.name = "TrendFollowingStrategy" ->
             [sma_50 : Averages, sma_200 : Averages]
      [] strat.name = "AdvancedTechnicalIndicatorStrategy" ->
             [rsi : Votes, macd : Votes, bb : Votes, stoch : Votes]
      [] OTHER -> [move : {"up", "down", "flat"}]

\* the candles a strategy's indicators need: the 200-period average for trend
\* following, calculate_all_indicators' minimum for the indicator strategy,
\* the feature window for the ML strategy
CandlesNeeded(strat) ==
    CASE strat.name = "TrendFollowingStrategy" -> Sma200Period
      [] strat.name = "AdvancedTechnicalIndicatorStrategy" -> MinIndicatorCandles
      [] OTHER -> MinFeatureCandles

InsufficientData ==
    [signal |-> "hold", strength |-> RZero, reason |-> "insufficient_data"]

HoldSignal == [signal |-> "hold", strength |-> RZero, reason |-> "none"]

\* TrendFollowingStrategy.generate_signal
TrendGenerateSignal(strat, count, market) ==
    IF count < strat.slow_ma_period THEN InsufficientData
    ELSE LET empty == count < MinIndicatorCandles
             fast_ma == IF empty THEN TickerPrice ELSE market.sma_50
             slow_ma == IF empty \/ ~strat.talib THEN TickerPrice
                        ELSE IF count >= Sma200Period THEN market.sma_200
                        ELSE 0
             spread == IF fast_ma > slow_ma THEN fast_ma - slow_ma
                       ELSE slow_ma - fast_ma
             trend_strength == IF slow_ma > 0 THEN Rat(spread, slow_ma)
                               ELSE RZero
             strength == RMin(RMul(trend_strength, RInt(10)), ROne)
         IN  IF fast_ma > slow_ma /\ RLess(Rat(2, 100), trend_strength)
             THEN [signal |-> "buy", strength |-> strength, reason |-> "none"]
             ELSE IF fast_ma < slow_ma /\ RLess(Rat(2, 100), trend_strength)
             THEN [signal |-> "sell", strength |-> strength, reason |-> "none"]
             ELSE HoldSignal

\* the weight (in tenths) the indicators put on one side; without TA-Lib the
\* fallback indicators hold no MACD, no band and no stochastic value, and the
\* defaults make the band test vote BUY
VoteWeight(strat, market, side) ==
    LET macd == IF strat.talib THEN market.macd ELSE "none"
        bb == IF strat.talib THEN market.bb ELSE "BUY"
        stoch == IF strat.talib THEN market.stoch ELSE "none"
    IN  (IF market.rsi = side THEN 7 ELSE 0) + (IF macd = side THEN 6 ELSE 0)
        + (IF bb = side THEN 8 ELSE 0) + (IF stoch = side THEN 5 ELSE 0)

\* AdvancedTechnicalIndicatorStrategy.generate_signal
IndicatorGenerateSignal(strat, count, market) ==
    IF count < MinIndicatorCandles THEN InsufficientData
    ELSE LET buy_strength == VoteWeight(strat, market, "BUY")
             sell_strength == VoteWeight(strat, market, "SELL")
         IN  IF buy_strength > sell_strength /\ buy_strength >= 10
             THEN [signal |-> "buy", reason |-> "none",
                   strength |-> RMin(Rat(buy_strength, 20), ROne)]
             ELSE IF sell_strength > buy_strength /\ sell_strength >= 10
             THEN [signal |-> "sell", reason |-> "none",
                   strength |-> RMin(Rat(sell_strength, 20), ROne)]
             ELSE HoldSignal

\* MLModelStrategy.generate_signal
MLGenerateSignal(strat, count, market) ==
    IF count < MinFeatureCandles
    THEN [signal |-> "hold", strength |-> RZero,
          reason |-> "insufficient_features"]
    ELSE LET prediction_score == CASE market.move = "up" -> Rat(75, 100)
                                   [] market.move = "down" -> Rat(25, 100)
                                   [] OTHER -> Rat(50, 100)
             half == Rat(50, 100)
         IN  IF RLess(strat.confidence_threshold, prediction_score)
             THEN [signal |-> "buy", reason |-> "none",
                   strength |-> RMin(RMul(RSub(prediction_score, half),
                                          RInt(2)), ROne)]
             ELSE IF RLess(prediction_score,
                           RSub(ROne, strat.confidence_threshold))
             THEN [signal |-> "sell", reason |-> "none",
                   strength |-> RMin(RMul(RSub(half, prediction_score),
                                          RInt(2)), ROne)]
             ELSE HoldSignal

CandleGenerateSignal(strat, count, market) ==
    CASE strat.name = "TrendFollowingStrategy" ->
             TrendGenerateSignal(strat, count, market)
      [] strat.name = "AdvancedTechnicalIndicatorStrategy" ->
             IndicatorGenerateSignal(strat, count, market)
      [] OTHER -> MLGenerateSignal(strat, count, market)

InitCandles ==
    /\ InitPositions /\ NoSignals /\ InitEngineState /\ ConstructedEngine
    /\ engine = "EnhancedTradingEngine"
    /\ instance \in CandleStrategies
    /\ returned = NoReturn

\* a call of generate_signal with a candle list of `count` candles
CallCandleGenerateSignal ==
    \E count \in CandleCounts : \E market \in Markets(instance) :
        /\ returned' = [op |-> "generate_signal", count |-> count,
                        signal |-> CandleGenerateSignal(instance, count, market)]
        /\ UNCHANGED <<bookVars, signalVars, engineVars, configVars, instance>>

NextCandles == CallCandleGenerateSignal

SpecCandles == InitCandles /\ [][NextCandles]_vars

\* C24: a candle-based strategy given fewer candles than its indicators need
\* returns HOLD with strength 0 and the reason "insufficient_data", for every
\* value of its lookback parameters.
C24_ShortHistoryIsInsufficientData ==
    (/\ returned.op = "generate_signal"
     /\ returned.count < CandlesNeeded(instance))
    => returned.signal = InsufficientData

\* C25: strength 0 is reserved for HOLD: an emitted HOLD has strength 0, an
\* emitted BUY or SELL a strength in (0, 1].
C25_StrengthZeroOnlyForHold ==
    returned.op = "generate_signal"
    => IF returned.signal.signal = "hold"
       THEN returned.signal.strength = RZero
       ELSE /\ RLess(RZero, returned.signal.strength)
            /\ ~RLess(ROne, returned.signal.strength)

\* ---- runtime control of one algorithm of a running bot (SpecRuntime) ------
\* The engine holds one ScalpingStrategy under algorithm id 1.  A tick never
\* suspends (every await in the cycle is of a coroutine that only makes
\* synchronous calls), and neither does update_algorithm_parameters or
\* toggle_algorithm, so the event loop runs them between ticks: a tick is
\* shown in two steps only to tell its signal generation from its risk
\* decision.

\* the keys of a Scalping algorithm's parameters
ParameterKeys == {"min_interval", "spread_threshold", "volume_threshold"}

\* values an update gives a parameter
ParameterValues == {1, 30}

\* algorithm ids an update or a toggle is asked for (2 is not loaded)
AlgorithmIds == {1, 2}

\* ScalpingStrategy.__init__ on the default parameters (thresholds in basis
\* points), with the algorithm's database record: enabled, parameters
ScalpingInstance ==
    [name |-> "ScalpingStrategy", min_signal_interval |-> 5,
     spread_threshold |-> 20, volume_threshold |-> 1000,
     parameters |-> <<>>, record_parameters |-> <<>>, enabled |-> TRUE]

\* hasattr(strategy, param)
HasAttr(strat, param) ==
    param \in {"name", "min_signal_interval", "spread_threshold",
               "volume_threshold"}

\* the attribute the strategy's code reads for a parameter
ReadFor(strat, param) ==
    IF param = "min_interval" THEN strat.min_signal_interval ELSE strat[param]

\* update_algorithm_parameters with {param: value}
UpdateParameters(strat, param, value) ==
    LET recorded == [strat EXCEPT !.record_parameters = (param :> value) @@ @]
    IN  IF HasAttr(strat, param)
        THEN [recorded EXCEPT ![param] = value]
        ELSE [recorded EXCEPT !.parameters = (param :> value) @@ @]

\* (mutation of ProcessesAlgorithm: the enabled flag is not looked at)
ProcessesAlgorithmAlways(strat) == TRUE

\* `if not config.enabled: continue`
ProcessesAlgorithm(strat) == strat.enabled

InitRuntime ==
    /\ InitPositions /\ NoSignals /\ InitEngineState /\ ConstructedEngine
    /\ engine = "EnhancedTradingEngine"
    /\ instance = ScalpingInstance
    /\ returned = [op |-> "none"]

Ticking == returned.op = "generate_signal"

UpdateAlgorithmParameters ==
    /\ ~Ticking
    /\ \E algorithm_id \in AlgorithmIds :
          IF algorithm_id # 1
          THEN /\ returned' = [op |-> "not found"]
               /\ UNCHANGED instance
          ELSE \E param \in ParameterKeys, value \in ParameterValues :
                  /\ instance' = UpdateParameters(instance, param, value)
                  /\ returned' = [op |-> "update_algorithm_parameters"]
    /\ UNCHANGED <<bookVars, signalVars, engineVars, configVars>>

ToggleAlgorithm ==
    /\ ~Ticking
    /\ \E algorithm_id \in AlgorithmIds :
          IF algorithm_id # 1
          THEN /\ returned' = [op |-> "not found"]
               /\ UNCHANGED instance
          ELSE /\ instance' = [instance EXCEPT !.enabled = ~@]
               /\ returned' = [op |-> "toggle_algorithm"]
    /\ UNCHANGED <<bookVars, signalVars, engineVars, configVars>>

\* the first half of the algorithm's turn in a cycle: the enabled test and
\* generate_signal (a HOLD ends the turn)
TickGenerateSignal ==
    /\ ~Ticking
    /\ IF ~ProcessesAlgorithm(instance)
       THEN returned' = [op |-> "tick", skipped |-> TRUE, ordered |-> FALSE]
       ELSE \E signal \in {"buy", "sell", "hold"} :
               IF signal = "hold"
               THEN returned' = [op |-> "tick", skipped |-> FALSE,
                                 ordered |-> FALSE,
                                 seen |-> [k \in ParameterKeys \ {"min_interval"}
                                              |-> ReadFor(instance, k)]]
               ELSE returned' = [op |-> "generate_signal",
                                 seen |-> [k \in ParameterKeys \ {"min_interval"}
                                              |-> ReadFor(instance, k)]]
    /\ UNCHANGED <<bookVars, signalVars, engineVars, configVars, instance>>

\* the second half: should_trade (which reads min_signal_interval) and, if it
\* agrees, the order
TickShouldExecute ==
    /\ Ticking
    /\ \E accepted \in BOOLEAN :
          returned' = [op |-> "tick", skipped |-> FALSE, ordered |-> accepted,
                       seen |-> ("min_interval" :> ReadFor(instance, "min_interval"))
                                @@ returned.seen]
    /\ UNCHANGED <<bookVars, signalVars, engineVars, configVars, instance>>

NextRuntime ==
    \/ UpdateAlgorithmParameters
    \/ ToggleAlgorithm
    \/ TickGenerateSignal
    \/ TickShouldExecute

SpecRuntime == InitRuntime /\ [][NextRuntime]_vars

\* C26: a parameter update takes effect on the next tick: every parameter a
\* tick's signal generation and risk decision read has the value last given to
\* it by an update.
C26_UpdateSeenByNextTick ==
    (returned.op = "tick" /\ ~returned.skipped)
    => \A k \in DOMAIN returned.seen \cap DOMAIN instance.record_parameters :
           returned.seen[k] = instance.record_parameters[k]

\* C29: no order is submitted for an algorithm while it is disabled.
C29_NoOrderWhileDisabled ==
    [][(returned'.op = "tick" /\ returned'.ordered) => instance.enabled]_vars

\* a cycle has passed over the disabled algorithm
C29_Witness ==
    /\ ~instance.enabled
    /\ returned.op = "tick"
    /\ returned.skipped


\* ---- orders and the position book, over cycles (SpecEngine) ---------------

\* C27: an order the exchange reports FILLED at submission is applied to the
\* position book, and an order reported PENDING or REJECTED, or one whose
\* submission raised, is not.
C27_FilledOrdersAreApplied ==
    \A i \in DOMAIN submitted :
        (submitted[i].result = "filled") <=> submitted[i].book_changed


\* C28: no BUY order is submitted for a symbol while the engine holds a long
\* position in it, and no SELL order while it holds a short one.
C28_NeverAddsToPosition ==
    [][Len(submitted') > Len(submitted) =>
          LET order == submitted'[Len(submitted')]
          IN  \A k \in DOMAIN positions :
                 positions[k].symbol = order.symbol =>
                     /\ ~(order.side = "buy" /\ positions[k].quantity > 0)
                     /\ ~(order.side = "sell" /\ positions[k].quantity < 0)]_vars


\* ---- the engine registry: start_bot and stop_bot on one bot ---------------

InitRegistry ==
    /\ InitPositions /\ NoSignals /\ InitEngineState /\ NoStrategy
    /\ engine = "EnhancedTradingEngine"
    /\ configuration = DefaultConfiguration
    /\ exchange = "none"
    /\ algorithm_instances = <<>>
    /\ engines = NoManager

NextRegistry ==
    \/ StartBot
    \/ StartBotTask
    \/ StopBot
    \/ LoopWake
    \/ CycleUpdatePositions
    \/ CycleCheckPendingOrder
    \/ CyclePortfolioValue
    \/ CycleProcessAlgorithm
    \/ CycleFinish
    \/ MonitorStart
    \/ CollectRound
    \/ CacheExpire

SpecRegistry == InitRegistry /\ [][NextRegistry]_vars

\* C30: whenever the engine stops, by stop_bot or by itself after a critical
\* error in start_trading, its bot id is no longer registered once it has
\* stopped.
C30_StoppedEngineIsUnregistered ==
    [][(~stopped_with.called /\ stopped_with'.called) =>
          ~engines'.registered]_vars


=============================================================================
